---- MODULE Spec2Model ----
(***************************************************************************)
(* A model of the benchserve benchmark server, in its two front ends:     *)
(*   - the line protocol of src/server.go (src/unnamed/part_000 is the    *)
(*     same server with a different Main), read from stdin;               *)
(*   - the JSON-RPC server of src/unnamed/part_001.                       *)
(* Strings are tuples of one-character strings, so that IndexByte, Atoi,  *)
(* Sprintf("%d") and strings.Fields are computed as the code computes     *)
(* them.                                                                  *)
(***************************************************************************)
EXTENDS Integers, Sequences, FiniteSets, TLC

\* ------------------------------------------------------------------ bounds
\* Largest GOMAXPROCS value a request asks for or a benchmark body leaves.
MaxProcs == 2
\* Largest iteration count a request asks for.
MaxN == 2
\* Largest number of benchmarks the test binary defines.
MaxBench == 2
\* Largest number of RPC calls in flight on one connection.
MaxCalls == 2

\* ----------------------------------------------------------------- strings
DigitChars == <<"0", "1", "2", "3", "4", "5", "6", "7", "8", "9">>

IsDigit(c) == \E d \in 1..10 : DigitChars[d] = c

DigitVal(c) == (CHOOSE d \in 1..10 : DigitChars[d] = c) - 1

RECURSIVE ParseDigits(_)
ParseDigits(s) ==
    IF s = <<>> THEN 0
    ELSE 10 * ParseDigits(SubSeq(s, 1, Len(s) - 1)) + DigitVal(s[Len(s)])

\* A parse that takes no sign: one or more decimal digits.
Atoi_unsigned(s) ==
    LET ok == s # <<>> /\ \A i \in 1..Len(s) : IsDigit(s[i])
    IN  [err |-> ~ok, val |-> IF ok THEN ParseDigits(s) ELSE 0]

\* strconv.Atoi: an optional sign, then one or more decimal digits.
\* On a syntax error the value is 0.
Atoi(s) ==
    LET signed == s # <<>> /\ s[1] \in {"+", "-"}
        body   == IF signed THEN Tail(s) ELSE s
        ok     == body # <<>> /\ \A i \in 1..Len(body) : IsDigit(body[i])
        v      == IF ok THEN ParseDigits(body) ELSE 0
    IN  [err |-> ~ok,
         val |-> IF ok /\ signed /\ s[1] = "-" THEN 0 - v ELSE v]

RECURSIVE FormatDigits(_)
FormatDigits(n) ==
    IF n < 10 THEN <<DigitChars[n + 1]>>
    ELSE FormatDigits(n \div 10) \o <<DigitChars[(n % 10) + 1]>>

\* fmt.Sprintf("%d", n)
Itoa(n) == IF n < 0 THEN <<"-">> \o FormatDigits(0 - n) ELSE FormatDigits(n)

\* strings.IndexByte: the 0-based index of the first c in s, or -1.
IndexByte(s, c) ==
    IF \E i \in 1..Len(s) : s[i] = c
    THEN (CHOOSE i \in 1..Len(s) : s[i] = c /\ \A j \in 1..(i - 1) : s[j] # c) - 1
    ELSE -1

\* strconv.ParseBool
ParseBool(s) ==
    IF s \in {<<"1">>, <<"t">>, <<"T">>, <<"t","r","u","e">>,
              <<"T","R","U","E">>, <<"T","r","u","e">>}
    THEN [err |-> FALSE, val |-> TRUE]
    ELSE IF s \in {<<"0">>, <<"f">>, <<"F">>, <<"f","a","l","s","e">>,
                   <<"F","A","L","S","E">>, <<"F","a","l","s","e">>}
    THEN [err |-> FALSE, val |-> FALSE]
    ELSE [err |-> TRUE, val |-> FALSE]

\* strings.Fields: the maximal runs of non-space characters of s.
RECURSIVE Fields(_)
Fields(s) ==
    IF s = <<>> THEN <<>>
    ELSE IF s[1] = " " THEN Fields(Tail(s))
    ELSE LET sp  == IndexByte(s, " ")
             end == IF sp = -1 THEN Len(s) ELSE sp
         IN  <<SubSeq(s, 1, end)>> \o Fields(SubSeq(s, end + 1, Len(s)))

\* benchmarkName returns full name of benchmark including procs suffix.
benchmarkName(name, n) ==
    IF n # 1 THEN name \o <<"-">> \o Itoa(n) ELSE name


\* runtime.GOMAXPROCS(n) with the current setting cur: the new setting.
\* If n < 1 the setting is not changed (the call only reports it).
GOMAXPROCS(n, cur) == IF n < 1 THEN cur ELSE n

\* -------------------------------------------------------------- the inputs
W_help     == <<"h","e","l","p">>
W_quit     == <<"q","u","i","t">>
W_exit     == <<"e","x","i","t">>
W_list     == <<"l","i","s","t">>
W_run      == <<"r","u","n">>
W_set      == <<"s","e","t">>
W_benchmem == <<"b","e","n","c","h","m","e","m">>
W_true     == <<"t","r","u","e">>
W_false    == <<"f","a","l","s","e">>
W_junk     == <<"x">>

\* The benchmark names a test binary may define, and the names asked for.
BenchNames == {<<"A">>, <<"B">>}

\* m.benchmarks of the host test binary: any sequence of at most MaxBench
\* entries; entry i has the body F = i. The names are interchangeable, so
\* only the sequences whose first name is "A" are taken.
Hosts ==
    {h \in UNION {[1..k -> BenchNames] : k \in 0..MaxBench} :
        Len(h) > 0 => h[1] = <<"A">>}

Entries(h) == [i \in 1..Len(h) |-> [Name |-> h[i], F |-> i]]

RECURSIVE Join(_)
Join(fs) ==
    IF fs = <<>> THEN <<>>
    ELSE IF Len(fs) = 1 THEN fs[1]
    ELSE fs[1] \o <<" ">> \o Join(Tail(fs))

\* The <name>[-cpu] arguments of the run command.
CpuArgs == {Itoa(p) : p \in (-1)..MaxProcs} \cup {W_junk, <<>>}
NameArgs ==
    BenchNames \cup {n \o <<"-">> \o c : n \in BenchNames, c \in CpuArgs}
\* The <iterations> arguments of the run command.
IterArgs == {Itoa(n) : n \in (-1)..MaxN} \cup {W_junk}

\* The lines read from stdin.
Lines ==
    {<<>>, <<" ">>, <<" ">> \o W_list \o <<" ", " ">>}
    \cup {Join(fs) : fs \in {<<W_help>>, <<W_quit>>, <<W_exit>>, <<W_list>>,
                             <<W_junk>>, <<W_set>>, <<W_set, W_benchmem>>,
                             <<W_set, W_benchmem, W_true>>,
                             <<W_set, W_benchmem, W_false>>,
                             <<W_set, W_benchmem, W_junk>>,
                             <<W_set, W_junk, W_true>>,
                             <<W_set, W_benchmem, W_true, W_junk>>,
                             <<W_run>>, <<W_run, <<"A">>>>,
                             <<W_run, <<"A">>, <<"1">>, W_junk>>}}
    \cup {Join(<<W_run, a, n>>) : a \in NameArgs, n \in IterArgs}

\* The arguments of an RPC Run call (type Run): the zero value of Procs and
\* of N (a field the request leaves out) and the values a caller sets.
RunArgs == [Name : BenchNames, Procs : 0..MaxProcs, N : {0, MaxN}]

\* ---------------------------------------------------------------- the state
VARIABLES
    frontend,    \* "line" (src/server.go) or "rpc" (src/unnamed/part_001)
    phase,       \* "boot", "serving" or "exited"
    exitCode,    \* the process's exit status once phase = "exited"
    host,        \* m.benchmarks, the benchmarks of the test binary
    benchmarks,  \* server.benchmarks (line protocol)
    m,           \* Server.m (RPC): benchmark name -> entry
    benchmem,    \* server.benchmem (line protocol)
    opt,         \* Server.opt (RPC)
    gomaxprocs,  \* the process-wide GOMAXPROCS setting
    fields,      \* line protocol: strings.Fields of the line being served
    stdout,      \* line protocol: written to stdout since that line was read
    stderr,      \* line protocol: written to stderr since that line was read
    conn,        \* RPC: "none", "open" (ServeConn reading) or "closing"
    calls        \* the handler activations: call id -> its position and locals

vars == <<frontend, phase, exitCode, host, benchmarks, m, benchmem, opt,
          gomaxprocs, fields, stdout, stderr, conn, calls>>

CallIds == 1..MaxCalls

\* One item written to a stream.
Item(kind, text, n) == [kind |-> kind, text |-> text, n |-> n]

\* testing.B as runBenchmark uses it, and the Result it assembles.
NoTB == [N |-> 0, failed |-> FALSE, showAllocResult |-> FALSE]
NoResult == [N |-> 0, Failed |-> FALSE, ReportAllocs |-> FALSE]

\* A handler that is not running. Name, Procs and N are the arguments of a
\* run request, Benchmem the argument of an RPC Set.
Idle ==
    [pc |-> "idle", method |-> "", Name |-> <<>>, Procs |-> 0, N |-> 0,
     Benchmem |-> FALSE, F |-> 0, tb |-> NoTB, r |-> NoResult,
     reply |-> "none", names |-> <<>>, err |-> ""]

Init ==
    /\ frontend \in {"line", "rpc"}
    /\ phase = "boot"
    /\ exitCode = 0
    /\ host \in Hosts
    /\ benchmarks = <<>>
    /\ m = <<>>
    /\ benchmem = FALSE
    /\ opt = [Benchmem |-> FALSE]
    /\ gomaxprocs \in 1..MaxProcs
    /\ fields = <<>>
    /\ stdout = <<>>
    /\ stderr = <<>>
    /\ conn = "none"
    /\ calls = [c \in CallIds |-> Idle]


\* --------------------------------------------------- construction (Serve)
\* src/server.go newServer: the benchmarks are taken as they are, whether
\* or not two of them share a name.
server_newServer ==
    /\ frontend = "line"
    /\ phase = "boot"
    /\ benchmarks' = Entries(host)
    /\ phase' = "serving"
    /\ UNCHANGED <<frontend, exitCode, host, m, benchmem, opt, gomaxprocs,
                   fields, stdout, stderr, conn, calls>>

\* The check of newServer left out: no name is ever found in s.m.
HasDuplicate_unchecked(h) == FALSE

\* Whether the loop of part_001's newServer meets a name that is already a
\* key of s.m.
HasDuplicate(h) == \E i, j \in 1..Len(h) : i < j /\ h[i] = h[j]

\* part_001 newServer: the map from name to benchmark; log.Fatalf (exit
\* status 1) on the second benchmark of a name.
Server_newServer ==
    /\ frontend = "rpc"
    /\ phase = "boot"
    /\ IF HasDuplicate(host)
       THEN /\ phase' = "exited"
            /\ exitCode' = 1
            /\ m' = m
       ELSE /\ phase' = "serving"
            /\ exitCode' = exitCode
            /\ m' = [n \in {host[i] : i \in 1..Len(host)} |->
                       Entries(host)[CHOOSE i \in 1..Len(host) : host[i] = n]]
    /\ UNCHANGED <<frontend, host, benchmarks, benchmem, opt, gomaxprocs,
                   fields, stdout, stderr, conn, calls>>

\* ------------------------------------------------------- the line protocol
\* The keys of cmds in server.serve.
cmds == {W_help, W_quit, W_exit, W_list, W_run, W_set}

\* No cmdRun is under way: the read loop is at scanner.Scan().
AtScan ==
    /\ frontend = "line"
    /\ phase = "serving"
    /\ calls[1].pc \in {"idle", "done"}

\* What a handler that returns at once leaves behind: the line's fields and
\* what it wrote.
Served(f, out, err) ==
    /\ fields' = f
    /\ stdout' = out
    /\ stderr' = err
    /\ calls' = [calls EXCEPT ![1] = Idle]

\* cmdHelp with os.Stdout in the place of os.Stderr.
cmdHelp_toStdout(f) ==
    /\ Served(f, <<Item("help", <<>>, 0)>>, <<>>)
    /\ UNCHANGED <<frontend, phase, exitCode, host, benchmarks, m, benchmem,
                   opt, gomaxprocs, conn>>

\* cmdHelp, also the answer to an empty line and to an unknown command.
cmdHelp(f) ==
    /\ Served(f, <<>>, <<Item("help", <<>>, 0)>>)
    /\ UNCHANGED <<frontend, phase, exitCode, host, benchmarks, m, benchmem,
                   opt, gomaxprocs, conn>>

\* cmdQuit: os.Exit(0).
cmdQuit(f) ==
    /\ Served(f, <<>>, <<>>)
    /\ phase' = "exited"
    /\ exitCode' = 0
    /\ UNCHANGED <<frontend, host, benchmarks, m, benchmem, opt, gomaxprocs,
                   conn>>

\* cmdList with its loop begun at the second benchmark.
cmdList_skipFirst(f) ==
    /\ Served(f,
              [i \in 1..(Len(benchmarks) - 1) |->
                   Item("line", benchmarks[i + 1].Name, 0)]
                  \o <<Item("blank", <<>>, 0)>>,
              <<>>)
    /\ UNCHANGED <<frontend, phase, exitCode, host, benchmarks, m, benchmem,
                   opt, gomaxprocs, conn>>

\* cmdList: every benchmark's name in the order of s.benchmarks, then an
\* empty line.
cmdList(f) ==
    /\ Served(f,
              [i \in 1..Len(benchmarks) |-> Item("line", benchmarks[i].Name, 0)]
                  \o <<Item("blank", <<>>, 0)>>,
              <<>>)
    /\ UNCHANGED <<frontend, phase, exitCode, host, benchmarks, m, benchmem,
                   opt, gomaxprocs, conn>>

\* cmdSet
cmdSet(f) ==
    LET args == Tail(f) IN
    IF Len(args) < 2 \/ args[1] # W_benchmem
    THEN /\ Served(f, <<>>, <<Item("setusage", <<>>, 0)>>)
         /\ UNCHANGED <<frontend, phase, exitCode, host, benchmarks, m,
                        benchmem, opt, gomaxprocs, conn>>
    ELSE IF ParseBool(args[2]).err
    THEN /\ Served(f, <<>>, <<Item("badbenchmem", args[2], 0)>>)
         /\ UNCHANGED <<frontend, phase, exitCode, host, benchmarks, m,
                        benchmem, opt, gomaxprocs, conn>>
    ELSE /\ Served(f, <<>>, <<>>)
         /\ benchmem' = ParseBool(args[2]).val
         /\ UNCHANGED <<frontend, phase, exitCode, host, benchmarks, m, opt,
                        gomaxprocs, conn>>

\* The lookup loop with its comparison x.Name == name left out: the first
\* benchmark is taken whatever its name.
Lookup_anyName(bs, name) == IF Len(bs) > 0 THEN 1 ELSE 0

\* The index in bs of the first benchmark named name, or 0: the lookup loop
\* of cmdRun, whose bench stays the zero value when no name matches.
Lookup(bs, name) ==
    IF \E i \in 1..Len(bs) : bs[i].Name = name
    THEN CHOOSE i \in 1..Len(bs) :
             bs[i].Name = name /\ \A j \in 1..(i - 1) : bs[j].Name # name
    ELSE 0

\* cmdRun up to the point where it runs the benchmark: the outcome of its
\* checks, in the order the code makes them.
cmdRunParse(args, bs) ==
    LET arg   == args[1]
        i     == IndexByte(arg, "-")
        cpu   == IF i # -1 THEN Atoi(SubSeq(arg, i + 2, Len(arg)))
                 ELSE [err |-> FALSE, val |-> 1]
        name  == IF i # -1 THEN SubSeq(arg, 1, i) ELSE arg
        k     == Lookup(bs, name)
        iters == Atoi(args[2])
        none  == [status |-> "usage", name |-> <<>>, procs |-> 1, iters |-> 0,
                  F |-> 0]
    IN  IF Len(args) < 2 THEN none
        ELSE IF cpu.err
        THEN [none EXCEPT !.status = "badcpu", !.name = arg]
        ELSE IF k = 0 \/ bs[k].Name = <<>>
        THEN [none EXCEPT !.status = "notfound", !.name = name,
                          !.procs = cpu.val]
        ELSE IF iters.err \/ iters.val <= 0
        THEN [none EXCEPT !.status = "baditers", !.name = name,
                          !.procs = cpu.val, !.iters = iters.val, !.F = bs[k].F]
        ELSE [status |-> "run", name |-> bs[k].Name, procs |-> cpu.val,
              iters |-> iters.val, F |-> bs[k].F]

\* cmdRun, from its entry to the call of runBenchmark.
cmdRun(f) ==
    LET p == cmdRunParse(Tail(f), benchmarks) IN
    IF p.status = "run"
    THEN /\ fields' = f
         /\ stdout' = <<Item("name", benchmarkName(p.name, p.procs), 0)>>
         /\ stderr' = <<>>
         /\ gomaxprocs' = GOMAXPROCS(p.procs, gomaxprocs)
         /\ calls' = [calls EXCEPT ![1] =
                [Idle EXCEPT !.pc = "call", !.method = "run", !.Name = p.name,
                             !.Procs = p.procs, !.N = p.iters, !.F = p.F]]
         /\ UNCHANGED <<frontend, phase, exitCode, host, benchmarks, m,
                        benchmem, opt, conn>>
    ELSE /\ Served(f, <<>>,
                   <<CASE p.status = "usage"    -> Item("runusage", <<>>, 0)
                       [] p.status = "badcpu"   -> Item("badcpu", p.name, 0)
                       [] p.status = "notfound" -> Item("notfound", p.name, 0)
                       [] p.status = "baditers" -> Item("baditers", <<>>, p.iters)>>)
         /\ UNCHANGED <<frontend, phase, exitCode, host, benchmarks, m,
                        benchmem, opt, gomaxprocs, conn>>

\* server.serve: one turn of the read loop, the handler included (cmdRun
\* up to its call of runBenchmark).
server_serve ==
    /\ AtScan
    /\ \E line \in Lines :
         LET f == Fields(line) IN
         IF Len(f) = 0 \/ f[1] \notin cmds THEN cmdHelp(f)
         ELSE CASE f[1] = W_help -> cmdHelp(f)
                [] f[1] \in {W_quit, W_exit} -> cmdQuit(f)
                [] f[1] = W_list -> cmdList(f)
                [] f[1] = W_set -> cmdSet(f)
                [] f[1] = W_run -> cmdRun(f)

\* scanner.Scan() returns false at the end of stdin: serve returns and the
\* process exits with status 0.
server_serve_eof ==
    /\ AtScan
    /\ phase' = "exited"
    /\ exitCode' = 0
    /\ UNCHANGED <<frontend, host, benchmarks, m, benchmem, opt, gomaxprocs,
                   fields, stdout, stderr, conn, calls>>

\* The read error handled with os.Exit(0) in the place of os.Exit(2).
server_serve_err_status0 ==
    /\ AtScan
    /\ phase' = "exited"
    /\ exitCode' = 0
    /\ stdout' = stdout \o <<Item("scanerr", <<>>, 0)>>
    /\ UNCHANGED <<frontend, host, benchmarks, m, benchmem, opt, gomaxprocs,
                   fields, stderr, conn, calls>>

\* scanner.Scan() returns false on a read error: the error is printed on
\* stdout and the process exits with status 2.
server_serve_err ==
    /\ AtScan
    /\ phase' = "exited"
    /\ exitCode' = 2
    /\ stdout' = stdout \o <<Item("scanerr", <<>>, 0)>>
    /\ UNCHANGED <<frontend, host, benchmarks, m, benchmem, opt, gomaxprocs,
                   fields, stderr, conn, calls>>

\* ------------------------------------------------------------ runBenchmark
\* The handler c has called runBenchmark(b, n): tb := testing.B{N: n} and the
\* goroutine that runs the benchmark is started; the caller is in wg.Wait().
runBenchmark(c) ==
    /\ phase = "serving"
    /\ calls[c].pc = "call"
    /\ calls' = [calls EXCEPT ![c].pc = "gc",
                              ![c].tb = [NoTB EXCEPT !.N = calls[c].N]]
    /\ UNCHANGED <<frontend, phase, exitCode, host, benchmarks, m, benchmem,
                   opt, gomaxprocs, fields, stdout, stderr, conn>>

\* runtime.GC() in the goroutine.
runBenchmark_GC(c) ==
    /\ phase = "serving"
    /\ calls[c].pc = "gc"
    /\ calls' = [calls EXCEPT ![c].pc = "timer"]
    /\ UNCHANGED <<frontend, phase, exitCode, host, benchmarks, m, benchmem,
                   opt, gomaxprocs, fields, stdout, stderr, conn>>

\* tb.ResetTimer(); tb.StartTimer(); the body b.F(&tb) begins.
runBenchmark_StartTimer(c) ==
    /\ phase = "serving"
    /\ calls[c].pc = "timer"
    /\ calls' = [calls EXCEPT ![c].pc = "body"]
    /\ UNCHANGED <<frontend, phase, exitCode, host, benchmarks, m, benchmem,
                   opt, gomaxprocs, fields, stdout, stderr, conn>>

\* b.F(&tb) returns. The body is the benchmark's own code: it may have
\* failed, may have called b.ReportAllocs, and may have called
\* runtime.GOMAXPROCS(p) (p = 0: it left the setting alone).
runBenchmark_F(c) ==
    /\ phase = "serving"
    /\ calls[c].pc = "body"
    /\ \E failed \in BOOLEAN, show \in BOOLEAN, p \in 0..MaxProcs :
         /\ calls' = [calls EXCEPT ![c].pc = "stop",
                                   ![c].tb.failed = failed,
                                   ![c].tb.showAllocResult = show]
         /\ gomaxprocs' = GOMAXPROCS(p, gomaxprocs)
    /\ UNCHANGED <<frontend, phase, exitCode, host, benchmarks, m, benchmem,
                   opt, fields, stdout, stderr, conn>>

\* The body ends the goroutine from within: b.FailNow (b.Fatal) marks the
\* benchmark as failed and calls runtime.Goexit, b.SkipNow calls it without
\* the mark. The deferred wg.Done() runs; tb.StopTimer() does not.
runBenchmark_Goexit(c) ==
    /\ phase = "serving"
    /\ calls[c].pc = "body"
    /\ \E failed \in BOOLEAN, show \in BOOLEAN, p \in 0..MaxProcs :
         /\ calls' = [calls EXCEPT ![c].pc = "read",
                                   ![c].tb.failed = failed,
                                   ![c].tb.showAllocResult = show]
         /\ gomaxprocs' = GOMAXPROCS(p, gomaxprocs)
    /\ UNCHANGED <<frontend, phase, exitCode, host, benchmarks, m, benchmem,
                   opt, fields, stdout, stderr, conn>>

\* tb.StopTimer(); the deferred wg.Done() ends the goroutine.
runBenchmark_StopTimer(c) ==
    /\ phase = "serving"
    /\ calls[c].pc = "stop"
    /\ calls' = [calls EXCEPT ![c].pc = "read"]
    /\ UNCHANGED <<frontend, phase, exitCode, host, benchmarks, m, benchmem,
                   opt, gomaxprocs, fields, stdout, stderr, conn>>

\* runBenchmark with r.N = n left out: N stays the zero value.
ResultOf_noN(tb, n) ==
    [N |-> 0, Failed |-> tb.failed, ReportAllocs |-> tb.showAllocResult]

\* The Result runBenchmark(b, n) assembles from tb once wg.Wait() returns.
ResultOf(tb, n) ==
    [N |-> n, Failed |-> tb.failed, ReportAllocs |-> tb.showAllocResult]

\* runBenchmark with wg.Wait() left out: tb's fields are read whether or not
\* the goroutine has ended.
runBenchmark_return_noWait(c) ==
    /\ phase = "serving"
    /\ calls[c].pc \in {"gc", "timer", "body", "stop", "read"}
    /\ calls' = [calls EXCEPT ![c].pc = "report",
                              ![c].r = ResultOf(calls[c].tb, calls[c].N)]
    /\ UNCHANGED <<frontend, phase, exitCode, host, benchmarks, m, benchmem,
                   opt, gomaxprocs, fields, stdout, stderr, conn>>

\* wg.Wait() returns and runBenchmark reads tb's fields into its Result.
runBenchmark_return(c) ==
    /\ phase = "serving"
    /\ calls[c].pc = "read"
    /\ calls' = [calls EXCEPT ![c].pc = "report",
                              ![c].r = ResultOf(calls[c].tb, calls[c].N)]
    /\ UNCHANGED <<frontend, phase, exitCode, host, benchmarks, m, benchmem,
                   opt, gomaxprocs, fields, stdout, stderr, conn>>

\* cmdRun running the benchmark again when it has failed.
cmdRun_report_retry ==
    /\ frontend = "line"
    /\ phase = "serving"
    /\ calls[1].pc = "report"
    /\ calls' = [calls EXCEPT ![1].pc =
                    IF calls[1].r.Failed THEN "call" ELSE "done"]
    /\ stdout' = stdout
    /\ stderr' = stderr
    /\ UNCHANGED <<frontend, phase, exitCode, host, benchmarks, m, benchmem,
                   opt, gomaxprocs, fields, conn>>

\* cmdRun ending with runtime.GOMAXPROCS(1), the run's setting undone.
cmdRun_report_restore ==
    /\ frontend = "line"
    /\ phase = "serving"
    /\ calls[1].pc = "report"
    /\ LET c == calls[1]
           benchName == benchmarkName(c.Name, c.Procs)
       IN  IF c.r.Failed
           THEN /\ stderr' = stderr \o <<Item("fail", benchName, 0)>>
                /\ stdout' = stdout
           ELSE /\ stdout' = stdout \o <<Item("result", <<>>, c.r.N)>>
                      \o (IF benchmem \/ c.r.ReportAllocs
                          THEN <<Item("mem", <<>>, 0)>> ELSE <<>>)
                      \o <<Item("nl", <<>>, 0)>>
                /\ stderr' = IF gomaxprocs # c.Procs
                             THEN stderr \o <<Item("leak", benchName, gomaxprocs)>>
                             ELSE stderr
    /\ calls' = [calls EXCEPT ![1].pc = "done"]
    /\ gomaxprocs' = GOMAXPROCS(1, gomaxprocs)
    /\ UNCHANGED <<frontend, phase, exitCode, host, benchmarks, m, benchmem,
                   opt, fields, conn>>

\* cmdRun, from the return of runBenchmark to its end.
cmdRun_report ==
    /\ frontend = "line"
    /\ phase = "serving"
    /\ calls[1].pc = "report"
    /\ LET c == calls[1]
           benchName == benchmarkName(c.Name, c.Procs)
       IN  IF c.r.Failed
           THEN /\ stderr' = stderr \o <<Item("fail", benchName, 0)>>
                /\ stdout' = stdout
           ELSE /\ stdout' = stdout \o <<Item("result", <<>>, c.r.N)>>
                      \o (IF benchmem \/ c.r.ReportAllocs
                          THEN <<Item("mem", <<>>, 0)>> ELSE <<>>)
                      \o <<Item("nl", <<>>, 0)>>
                /\ stderr' = IF gomaxprocs # c.Procs
                             THEN stderr \o <<Item("leak", benchName, gomaxprocs)>>
                             ELSE stderr
    /\ calls' = [calls EXCEPT ![1].pc = "done"]
    /\ UNCHANGED <<frontend, phase, exitCode, host, benchmarks, m, benchmem,
                   opt, gomaxprocs, fields, conn>>


\* ----------------------------------------------------------- the RPC server
\* Server.serve: l.Accept() returns a connection and jsonrpc.ServeConn
\* begins to read its requests.
Server_serve ==
    /\ frontend = "rpc"
    /\ phase = "serving"
    /\ conn = "none"
    /\ conn' = "open"
    /\ UNCHANGED <<frontend, phase, exitCode, host, benchmarks, m, benchmem,
                   opt, gomaxprocs, fields, stdout, stderr, calls>>

\* Server.serve: net.Listen or l.Accept() fails: log.Fatalf, exit status 1.
Server_serve_fatal ==
    /\ frontend = "rpc"
    /\ phase = "serving"
    /\ conn = "none"
    /\ phase' = "exited"
    /\ exitCode' = 1
    /\ UNCHANGED <<frontend, host, benchmarks, m, benchmem, opt, gomaxprocs,
                   fields, stdout, stderr, conn, calls>>

\* jsonrpc.ServeConn (net/rpc's ServeCodec) starts every request it reads
\* on a goroutine of its own ("go service.call(...)") and goes on reading:
\* c is the first handler slot that is not running.
Spawn(c) ==
    /\ frontend = "rpc"
    /\ phase = "serving"
    /\ conn = "open"
    /\ calls[c].pc \in {"idle", "done"}
    /\ \A d \in 1..(c - 1) : calls[d].pc \notin {"idle", "done"}

\* net/rpc's sendResponse: when the method returned an error the reply is
\* replaced by an empty value, so only the error reaches the caller.
sendResponse(reply, err) == IF err # "" THEN "invalid" ELSE reply

\* A handler's end: its response is written to the connection.
Respond(c, reply, err) ==
    [c EXCEPT !.pc = "done", !.reply = sendResponse(reply, err), !.err = err]

\* The orders in which ranging over a map with the keys S may visit them.
MapOrders(S) ==
    {o \in [1..Cardinality(S) -> S] :
        \A i, j \in 1..Cardinality(S) : o[i] = o[j] => i = j}

\* Server.List
Server_List(c) ==
    /\ Spawn(c)
    /\ \E o \in MapOrders(DOMAIN m) :
         calls' = [calls EXCEPT ![c] =
             Respond([Idle EXCEPT !.method = "List",
                                  !.names = [i \in 1..Len(o) |-> m[o[i]].Name]],
                     "names", "")]
    /\ UNCHANGED <<frontend, phase, exitCode, host, benchmarks, m, benchmem,
                   opt, gomaxprocs, fields, stdout, stderr, conn>>

\* Server.Kill: os.Exit(0). The process ends, and with it the connection
\* and every handler that was running.
Server_Kill(c) ==
    /\ Spawn(c)
    /\ phase' = "exited"
    /\ exitCode' = 0
    /\ conn' = "none"
    /\ calls' = [d \in CallIds |-> Idle]
    /\ UNCHANGED <<frontend, host, benchmarks, m, benchmem, opt, gomaxprocs,
                   fields, stdout, stderr>>

\* Server.Set
Server_Set(c, args) ==
    /\ Spawn(c)
    /\ opt' = args
    /\ calls' = [calls EXCEPT ![c] =
                    Respond([Idle EXCEPT !.method = "Set",
                                         !.Benchmem = args.Benchmem],
                            "empty", "")]
    /\ UNCHANGED <<frontend, phase, exitCode, host, benchmarks, m, benchmem,
                   gomaxprocs, fields, stdout, stderr, conn>>

\* Server.Run, from its entry to the call of runBenchmark.
Server_Run(c, args) ==
    /\ Spawn(c)
    /\ LET call == [Idle EXCEPT !.method = "Run", !.Name = args.Name,
                                !.Procs = args.Procs, !.N = args.N]
       IN  IF args.Name \notin DOMAIN m
           THEN /\ calls' = [calls EXCEPT ![c] = Respond(call, "none", "notfound")]
                /\ gomaxprocs' = gomaxprocs
           ELSE /\ calls' = [calls EXCEPT ![c] =
                       [call EXCEPT !.pc = "call", !.F = m[args.Name].F]]
                /\ gomaxprocs' = GOMAXPROCS(args.Procs, gomaxprocs)
    /\ UNCHANGED <<frontend, phase, exitCode, host, benchmarks, m, benchmem,
                   opt, fields, stdout, stderr, conn>>

\* Server.Run with its GOMAXPROCS check left out.
Server_Run_return_noLeak(c) ==
    /\ frontend = "rpc"
    /\ phase = "serving"
    /\ calls[c].pc = "report"
    /\ calls' = [calls EXCEPT ![c] =
           Respond(calls[c], "result",
                   IF calls[c].r.Failed THEN "failed" ELSE "")]
    /\ UNCHANGED <<frontend, phase, exitCode, host, benchmarks, m, benchmem,
                   opt, gomaxprocs, fields, stdout, stderr, conn>>

\* Server.Run, from the return of runBenchmark (*reply = ...) to its end.
Server_Run_return(c) ==
    /\ frontend = "rpc"
    /\ phase = "serving"
    /\ calls[c].pc = "report"
    /\ calls' = [calls EXCEPT ![c] =
           Respond(calls[c], "result",
                   IF calls[c].r.Failed THEN "failed"
                   ELSE IF gomaxprocs # calls[c].Procs THEN "leak"
                   ELSE "")]
    /\ UNCHANGED <<frontend, phase, exitCode, host, benchmarks, m, benchmem,
                   opt, gomaxprocs, fields, stdout, stderr, conn>>

\* The client hangs up and every handler of the connection has ended:
\* jsonrpc.ServeConn returns, conn.Close(), and serve accepts again.
ServeConn_return ==
    /\ frontend = "rpc"
    /\ phase = "serving"
    /\ conn = "open"
    /\ \A c \in CallIds : calls[c].pc \in {"idle", "done"}
    /\ conn' = "none"
    /\ calls' = [c \in CallIds |-> Idle]
    /\ UNCHANGED <<frontend, phase, exitCode, host, benchmarks, m, benchmem,
                   opt, gomaxprocs, fields, stdout, stderr>>

\* --------------------------------------------------------- the specification
Next ==
    \/ server_newServer
    \/ Server_newServer
    \/ server_serve
    \/ server_serve_eof
    \/ server_serve_err
    \/ cmdRun_report
    \/ Server_serve
    \/ Server_serve_fatal
    \/ ServeConn_return
    \/ \E c \in CallIds :
         \/ runBenchmark(c)
         \/ runBenchmark_GC(c)
         \/ runBenchmark_StartTimer(c)
         \/ runBenchmark_F(c)
         \/ runBenchmark_Goexit(c)
         \/ runBenchmark_StopTimer(c)
         \/ runBenchmark_return(c)
         \/ Server_List(c)
         \/ Server_Kill(c)
         \/ \E o \in [Benchmem : BOOLEAN] : Server_Set(c, o)
         \/ \E args \in RunArgs : Server_Run(c, args)
         \/ Server_Run_return(c)

Spec == Init /\ [][Next]_vars


\* ------------------------------------------------------------------ claims
\* The handler c has begun to handle a run request and has not yet produced
\* its Result or error.
Handling(c) ==
    calls[c].pc \in {"call", "gc", "timer", "body", "stop", "read", "report"}

\* runBenchmark has been called by the handler c and has not returned.
InEngine(c) == calls[c].pc \in {"gc", "timer", "body", "stop", "read"}

\* The handler c has produced the outcome of a run request.
RunDone(c) == calls[c].pc = "done" /\ calls[c].method \in {"run", "Run"}

HasItem(stream, kind) == \E i \in 1..Len(stream) : stream[i].kind = kind

\* The names the server has registered.
Registered ==
    IF frontend = "line" THEN {benchmarks[i].Name : i \in 1..Len(benchmarks)}
    ELSE DOMAIN m

\* C1: at most one run request is being handled at any time: no handler
\* begins while another has yet to produce its Result or error.
C1_SingleFlight ==
    \A c, d \in CallIds : (c # d /\ Handling(c)) => ~Handling(d)

\* C2: a successful run's report includes the memory statistics exactly when
\* benchmem is set or the benchmark asked for them (b.ReportAllocs). Line
\* protocol: the "mem" item on stdout. RPC: Result.ReportAllocs of the
\* Result the caller receives; the run is a well-formed one with no other
\* call of its connection around it, so opt is what it was when it began.
C2_MemStats ==
    /\ (frontend = "line" /\ phase = "serving" /\ RunDone(1)
        /\ ~calls[1].r.Failed)
         => (HasItem(stdout, "mem")
               <=> (benchmem \/ calls[1].tb.showAllocResult))
    /\ \A c \in CallIds :
         (/\ frontend = "rpc"
          /\ RunDone(c)
          /\ calls[c].err = ""
          /\ calls[c].N > 0
          /\ \A d \in CallIds \ {c} : calls[d] = Idle)
         => (/\ calls[c].reply = "result"
             /\ calls[c].r.ReportAllocs
                  <=> (opt.Benchmem \/ calls[c].tb.showAllocResult))

\* C3: when the engine does not report failure and the GOMAXPROCS setting
\* read after the run differs from the requested one, the caller receives
\* the Result and, with it, the leak report (the request is a well-formed
\* one: a positive Procs and a positive N).
C3_LeakKeepsResult ==
    [][\A c \in CallIds :
         (/\ calls[c].pc = "report"
          /\ calls'[c].pc = "done"
          /\ ~calls[c].r.Failed
          /\ calls[c].Procs >= 1
          /\ calls[c].N > 0
          /\ gomaxprocs # calls[c].Procs)
         => IF frontend = "line"
            THEN /\ HasItem(stdout', "result")
                 /\ HasItem(stderr', "leak")
            ELSE /\ calls'[c].reply = "result"
                 /\ calls'[c].err = "leak"]_vars

\* The line being served is a run request with its two arguments.
LineRun ==
    /\ frontend = "line"
    /\ phase = "serving"
    /\ Len(fields) >= 3
    /\ fields[1] = W_run

\* Its <name>[-cpu] argument, taken apart at the first '-'.
LineDash == IndexByte(fields[2], "-")
LineName ==
    IF LineDash = -1 THEN fields[2] ELSE SubSeq(fields[2], 1, LineDash)
LineCpu == SubSeq(fields[2], LineDash + 2, Len(fields[2]))
LineCpuOk == LineDash = -1 \/ ~Atoi(LineCpu).err
LineProcs == IF LineDash = -1 THEN 1 ELSE Atoi(LineCpu).val
\* Its <iterations> argument.
LineIters == Atoi(fields[3])

\* C4: a run request with a non-positive iteration count is answered by an
\* error and gets no further: GOMAXPROCS is not called for it and the engine
\* is not invoked.
C4_NonPositiveRejected ==
    /\ (LineRun /\ (LineIters.err \/ LineIters.val <= 0))
         => (calls[1] = Idle /\ stdout = <<>> /\ Len(stderr) = 1)
    /\ \A c \in CallIds :
         (calls[c].method = "Run" /\ calls[c].N <= 0)
         => (calls[c].pc = "done" /\ calls[c].err # "" /\ calls[c].tb = NoTB)

\* C5 as claimed: a run request for a name that is not registered is
\* answered by "not found", whatever its other fields are, and gets no
\* further.
C5_NotFoundAlways ==
    /\ (LineRun /\ LineName \notin Registered)
         => (/\ calls[1] = Idle
             /\ stdout = <<>>
             /\ stderr = <<Item("notfound", LineName, 0)>>)
    /\ \A c \in CallIds :
         (frontend = "rpc" /\ calls[c].method = "Run"
          /\ calls[c].Name \notin Registered)
         => (/\ calls[c].pc = "done"
             /\ calls[c].err = "notfound"
             /\ calls[c].tb = NoTB)

\* C5 as amended: a run request for a name that is not registered never
\* invokes the engine, leaves GOMAXPROCS as it is and is answered by an
\* error; the error is "not found" on both front ends, except that the line
\* protocol answers "bad cpu value" when the -cpu suffix is not a number,
\* which it checks before it looks the name up.
C5_NotFound ==
    [][/\ (AtScan /\ LineRun' /\ LineName' \notin Registered)
            => (/\ calls'[1] = Idle
                /\ stdout' = <<>>
                /\ gomaxprocs' = gomaxprocs
                /\ stderr' = IF LineCpuOk'
                             THEN <<Item("notfound", LineName', 0)>>
                             ELSE <<Item("badcpu", fields'[2], 0)>>)
       /\ \A c \in CallIds :
            (/\ frontend = "rpc"
             /\ calls[c].pc \in {"idle", "done"}
             /\ calls'[c] # calls[c]
             /\ calls'[c].method = "Run"
             /\ calls'[c].Name \notin Registered)
            => (/\ calls'[c].pc = "done"
                /\ calls'[c].err = "notfound"
                /\ calls'[c].reply = "invalid"
                /\ calls'[c].tb = NoTB
                /\ gomaxprocs' = gomaxprocs)]_vars

\* C5, its case: the line protocol has answered "not found" to a request
\* for an unregistered name whose other fields are a cpu suffix and a
\* non-positive iteration count, while another name is registered.
C5_Witness ==
    /\ LineRun
    /\ Registered # {}
    /\ LineName \notin Registered
    /\ LineDash # -1
    /\ LineIters.val <= 0
    /\ stderr = <<Item("notfound", LineName, 0)>>

\* The engine has been invoked for the handler c.
Invoked(c) ==
    \/ InEngine(c)
    \/ calls[c].pc = "report"
    \/ (RunDone(c) /\ calls[c].err # "notfound")

\* C6: a run request for a registered name with an iteration count n > 0
\* invokes the engine with tb.N = n, and the Result it returns has N = n.
C6_IterationsKept ==
    /\ (LineRun /\ LineCpuOk /\ LineName \in Registered
        /\ ~LineIters.err /\ LineIters.val > 0)
         => (/\ calls[1].pc # "idle"
             /\ calls[1].N = LineIters.val
             /\ Invoked(1) => calls[1].tb.N = LineIters.val
             /\ \A i \in 1..Len(stdout) :
                  stdout[i].kind = "result" => stdout[i].n = LineIters.val)
    /\ \A c \in CallIds :
         (calls[c].method = "Run" /\ calls[c].Name \in Registered
          /\ calls[c].N > 0)
         => (/\ calls[c].pc # "idle"
             /\ calls[c].err # "notfound"
             /\ Invoked(c) => calls[c].tb.N = calls[c].N
             /\ (calls[c].pc = "report" \/ RunDone(c))
                  => calls[c].r.N = calls[c].N)

\* C6, its case: a run of MaxN iterations has returned its Result, on
\* stdout in the line protocol.
C6_Witness ==
    /\ LineRun
    /\ LineIters.val = MaxN
    /\ RunDone(1)
    /\ HasItem(stdout, "result")

LineListed ==
    LET ls == SelectSeq(stdout, LAMBDA it : it.kind = "line")
    IN  [i \in 1..Len(ls) |-> ls[i].text]

NoRepeat(q) == \A i, j \in 1..Len(q) : q[i] = q[j] => i = j

Range(q) == {q[i] : i \in 1..Len(q)}

\* The line being served is a list command.
LineList ==
    frontend = "line" /\ phase = "serving" /\ Len(fields) >= 1
    /\ fields[1] = W_list

C9_SuffixIsParallelism ==
    (LineRun /\ calls[1].pc = "call")
      => (/\ gomaxprocs = LineProcs
          /\ LineDash = -1 => stdout = <<Item("name", fields[2], 0)>>
          /\ (LineDash # -1 /\ LineProcs # 1)
               => stdout = <<Item("name",
                                  LineName \o <<"-">> \o Itoa(LineProcs), 0)>>)

\* C10: whenever a handler is about to invoke the engine, the parallelism it
\* was asked for is a positive number, 1 when the request names none, and
\* GOMAXPROCS is that number.
C10_PositiveParallelism ==
    /\ \A c \in CallIds :
         calls[c].pc = "call"
           => (calls[c].Procs >= 1 /\ gomaxprocs = calls[c].Procs)
    /\ (LineRun /\ calls[1].pc = "call" /\ LineDash = -1)
         => calls[1].Procs = 1

\* C11: RPC Run returns an error exactly when the name is not registered, or
\* the engine reported failure, or the GOMAXPROCS setting read after the run
\* differs from the requested one, and the error tells which: "not found",
\* "failed" (which comes first when a failed run also leaked) or "left
\* GOMAXPROCS set to"; otherwise the caller receives the Result and no error.
C11_RunErrors ==
    [][\A c \in CallIds :
         (/\ frontend = "rpc"
          /\ calls'[c] # calls[c]
          /\ calls'[c].pc = "done"
          /\ calls'[c].method = "Run")
         => LET unknown == calls'[c].Name \notin DOMAIN m
                failed  == ~unknown /\ calls'[c].tb.failed
                leaked  == ~unknown /\ gomaxprocs # calls'[c].Procs
            IN  /\ calls'[c].err # "" <=> (unknown \/ failed \/ leaked)
                /\ calls'[c].err = "notfound" <=> unknown
                /\ calls'[c].err = "failed" <=> failed
                /\ calls'[c].err = "leak" <=> (leaked /\ ~failed)
                /\ calls'[c].err = "" => calls'[c].reply = "result"
                /\ calls'[c].err \in {"", "notfound", "failed", "leak"}]_vars

\* C11, its case: a Run of a registered benchmark that did not fail has
\* returned the leak error, after a well-formed request.
C11_Witness ==
    \E c \in CallIds :
        /\ frontend = "rpc"
        /\ RunDone(c)
        /\ calls[c].Procs >= 1
        /\ calls[c].N > 0
        /\ ~calls[c].tb.failed
        /\ calls[c].err = "leak"

\* What the line protocol writes for lists and runs, and what it writes for
\* help, errors, failures and leaks.
OutputKinds == {"line", "blank", "name", "result", "mem", "nl"}
ErrorKinds ==
    {"help", "setusage", "badbenchmem", "runusage", "badcpu", "notfound",
     "baditers", "fail", "leak"}

\* C12: in the line protocol, whatever the commands served, stdout holds
\* only list results and complete lines of successful runs, and stderr only
\* help, error messages, failure notices and leak warnings; a run that the
\* engine reports as failed has written "--- FAIL: <display-name>" to stderr
\* and nothing to stdout.
C12_StreamSeparation ==
    (frontend = "line" /\ phase = "serving")
      => (/\ \A i \in 1..Len(stdout) : stdout[i].kind \in OutputKinds
          /\ \A i \in 1..Len(stderr) : stderr[i].kind \in ErrorKinds
          /\ (RunDone(1) /\ calls[1].r.Failed)
               => (/\ stdout = <<>>
                   /\ stderr = <<Item("fail",
                                      benchmarkName(calls[1].Name,
                                                    calls[1].Procs), 0)>>)
          /\ (RunDone(1) /\ ~calls[1].r.Failed)
               => (/\ Len(stdout) >= 3
                   /\ stdout[1].kind = "name"
                   /\ stdout[2].kind = "result"
                   /\ stdout[Len(stdout)].kind = "nl"))

\* The step is one turn of the line protocol's read loop, the process still
\* running after it.
LineStep == AtScan /\ phase' = "serving"

\* The fields f are a set command that is not "set benchmem <bool>".
MalformedSet(f) ==
    /\ Len(f) >= 1
    /\ f[1] = W_set
    /\ (Len(f) # 3 \/ f[2] # W_benchmem \/ ParseBool(f[3]).err)

\* C13: in the line protocol, a set command that has not exactly two
\* arguments, or names an option other than benchmem, or gives a value that
\* is not a boolean, writes an error to stderr and leaves benchmem as it was.
C13_MalformedSetRejected ==
    [][(LineStep /\ MalformedSet(fields'))
         => (/\ benchmem' = benchmem
             /\ stdout' = <<>>
             /\ Len(stderr') = 1
             /\ stderr'[1].kind \in {"setusage", "badbenchmem"})]_vars

\* C14: in the line protocol, a line that is empty or whose first field is
\* not a command is answered by the help text on stderr and by nothing else:
\* the engine is not invoked, benchmem, the benchmarks and GOMAXPROCS stay as
\* they were, and the read loop is at its next scanner.Scan().
C14_HelpFallback ==
    [][(LineStep /\ (Len(fields') = 0 \/ fields'[1] \notin cmds))
         => (/\ stderr' = <<Item("help", <<>>, 0)>>
             /\ stdout' = <<>>
             /\ calls'[1] = Idle
             /\ benchmem' = benchmem
             /\ benchmarks' = benchmarks
             /\ gomaxprocs' = gomaxprocs
             /\ exitCode' = exitCode
             /\ AtScan')]_vars

\* C14, its case: a line whose first field is no command has been answered
\* by the help text, benchmem having been set before.
C14_Witness ==
    /\ frontend = "line"
    /\ phase = "serving"
    /\ Len(fields) >= 1
    /\ fields[1] \notin cmds
    /\ benchmem
    /\ stderr = <<Item("help", <<>>, 0)>>
    /\ stdout = <<>>

\* The next step of the handler c once its run request has been accepted:
\* the goroutine of runBenchmark, then the handler's own report.
HandlerStep(c) ==
    \/ runBenchmark(c)
    \/ runBenchmark_GC(c)
    \/ runBenchmark_StartTimer(c)
    \/ runBenchmark_F(c)
    \/ runBenchmark_Goexit(c)
    \/ runBenchmark_StopTimer(c)
    \/ runBenchmark_return(c)
    \/ (c = 1 /\ cmdRun_report)
    \/ Server_Run_return(c)

\* The Go scheduler runs every goroutine that can run, and the benchmark
\* body returns: no handler that can take its next step waits for ever.
FairSpec == Spec /\ \A c \in CallIds : WF_vars(HandlerStep(c))

\* C15: a run request invokes the engine at most once (runBenchmark is
\* entered only from the call of a request just accepted, and no later step
\* of the handler goes back to it); every error is reported once (one item
\* on stderr for a rejected, failed or leaking run of the line protocol, one
\* response for an RPC call); and once a run is accepted its handler ends,
\* after which the line protocol is at scanner.Scan() and the RPC slot is
\* free for the next request, unless the process has exited.
C15_NoRetry ==
    /\ [][/\ \A c \in CallIds :
               /\ (calls'[c].pc = "call" /\ calls'[c] # calls[c])
                    => calls[c].pc \in {"idle", "done"}
               /\ (calls'[c].pc = "gc" /\ calls[c].pc # "gc")
                    => calls[c].pc = "call"
               /\ (calls'[c].pc = "done" /\ calls'[c] # calls[c])
                    => calls[c].pc \in {"idle", "done", "report"}
               /\ (calls[c].pc = "report" /\ calls'[c] # calls[c])
                    => (calls'[c].pc = "done" \/ phase' = "exited")
          /\ (LineStep /\ Len(fields') >= 1 /\ fields'[1] = W_run
              /\ calls'[1] = Idle)
               => Len(stderr') = 1
          /\ (frontend = "line" /\ calls[1].pc = "report"
              /\ calls'[1].pc = "done")
               => Len(stderr') =
                    IF calls[1].r.Failed \/ gomaxprocs # calls[1].Procs
                    THEN 1 ELSE 0]_vars
    /\ \A c \in CallIds :
         Handling(c) ~> (phase = "exited" \/ calls[c].pc = "done")

\* C15, its case: a run of the line protocol has failed, its failure has
\* been reported and the read loop is at scanner.Scan() again.
C15_Witness ==
    /\ AtScan
    /\ RunDone(1)
    /\ calls[1].r.Failed
    /\ Len(stderr) = 1
    /\ stderr[1].kind = "fail"

\* C16: in the line protocol, serving "quit" or "exit" ends the process in
\* that very step with exit status 0, a read error of stdin ends it with a
\* status that is not 0, and nothing happens once the process has exited:
\* no later line is served.
C16_ExitStatus ==
    [][/\ phase # "exited"
       /\ (AtScan /\ Len(fields') >= 1 /\ fields'[1] \in {W_quit, W_exit})
            => (/\ phase' = "exited"
                /\ exitCode' = 0
                /\ stdout' = <<>>
                /\ stderr' = <<>>
                /\ calls'[1] = Idle)
       /\ (AtScan /\ HasItem(stdout', "scanerr"))
            => (phase' = "exited" /\ exitCode' # 0)
       /\ (frontend = "line" /\ phase' = "exited" /\ exitCode' # 0)
            => HasItem(stdout', "scanerr")]_vars

\* C16, its case: the process has exited with status 0 on an "exit" line
\* that followed another command.
C16_Witness ==
    /\ frontend = "line"
    /\ phase = "exited"
    /\ exitCode = 0
    /\ fields = <<W_exit>>
    /\ benchmem

\* C17: the steps of every run come in this order, each one after the one
\* before it: runtime.GOMAXPROCS(procs) is called, then runtime.GC(), then
\* the timer is reset and started, then the body runs, then the timer is
\* stopped, then the counters of tb are read into the Result, and then
\* GOMAXPROCS is read again for the leak check.
C17_StepOrder ==
    [][\A c \in CallIds :
         calls'[c].pc # calls[c].pc
           => (/\ calls'[c].pc = "call"
                    => (/\ calls[c].pc \in {"idle", "done"}
                        /\ gomaxprocs' = GOMAXPROCS(calls'[c].Procs, gomaxprocs))
               /\ calls'[c].pc = "gc" => calls[c].pc = "call"
               /\ calls'[c].pc = "timer" => calls[c].pc = "gc"
               /\ calls'[c].pc = "body" => calls[c].pc = "timer"
               /\ calls'[c].pc = "stop" => calls[c].pc = "body"
               /\ calls'[c].pc = "read" => calls[c].pc = "stop"
               /\ calls'[c].pc = "report"
                    => (/\ calls[c].pc = "read"
                        /\ calls'[c].r = ResultOf(calls[c].tb, calls[c].N))
               /\ (calls'[c].pc = "done" /\ calls'[c].method \in {"run", "Run"}
                   /\ calls'[c].err # "notfound")
                    => (/\ calls[c].pc = "report"
                        /\ ~calls[c].r.Failed
                             => ((gomaxprocs # calls[c].Procs)
                                   <=> IF frontend = "line"
                                       THEN HasItem(stderr', "leak")
                                       ELSE calls'[c].err = "leak")))]_vars

\* The goroutine that runBenchmark started for the handler c has not yet
\* run its deferred wg.Done().
BodyRunning(c) == calls[c].pc \in {"gc", "timer", "body", "stop"}

\* C18: runBenchmark waits for the goroutine that runs the body. While that
\* goroutine has not signalled its end, the Result has not been assembled
\* and nothing of it has been returned or printed; the fields of tb are read
\* into the Result only by the step that follows the goroutine's end, and
\* they are then what the body left.
C18_WaitsForBody ==
    [][\A c \in CallIds :
         /\ BodyRunning(c)
              => (/\ calls[c].r = NoResult
                  /\ calls[c].reply = "none"
                  /\ calls[c].err = ""
                  /\ frontend = "line"
                       => (~HasItem(stdout, "result") /\ stderr = <<>>))
         /\ (BodyRunning(c) /\ calls'[c] # calls[c])
              => (/\ calls'[c].r = NoResult
                  /\ calls'[c].pc \in {"gc", "timer", "body", "stop", "read",
                                       "idle"})
         /\ (calls'[c].r # calls[c].r /\ calls'[c].r # NoResult)
              => (/\ calls[c].pc = "read"
                  /\ calls'[c].r.Failed = calls[c].tb.failed
                  /\ calls'[c].r.ReportAllocs = calls[c].tb.showAllocResult
                  /\ calls'[c].r.N = calls[c].tb.N)]_vars

\* C18, its case: while one handler's body is still running, another
\* handler's Result has been assembled from what its own body left.
C18_Witness ==
    \E c, d \in CallIds :
        /\ calls[c].pc = "body"
        /\ calls[d].pc = "report"
        /\ calls[d].r.Failed
        /\ calls[d].r.N = MaxN

\* The fields f are the command "set benchmem <bool>".
WellFormedSet(f) ==
    /\ Len(f) = 3
    /\ f[1] = W_set
    /\ f[2] = W_benchmem
    /\ ~ParseBool(f[3]).err

\* C19: the options change only in a step that serves a well-formed set
\* command (line protocol) or a Set call (RPC), and after that step they are
\* the value supplied, whatever they were; every other step (help, list,
\* List, every outcome of a run) leaves them as they were.
C19_OptionsOnlyBySet ==
    [][/\ benchmem' # benchmem
            => (/\ LineStep
                /\ WellFormedSet(fields')
                /\ benchmem' = ParseBool(fields'[3]).val)
       /\ (LineStep /\ WellFormedSet(fields'))
            => benchmem' = ParseBool(fields'[3]).val
       /\ opt' # opt
            => \E c \in CallIds :
                 /\ calls[c].pc \in {"idle", "done"}
                 /\ calls'[c].pc = "done"
                 /\ calls'[c].method = "Set"
                 /\ opt' = [Benchmem |-> calls'[c].Benchmem]
       /\ \A c \in CallIds :
            (calls'[c] # calls[c] /\ calls'[c].method = "Set")
              => opt' = [Benchmem |-> calls'[c].Benchmem]]_vars

\* C20: GOMAXPROCS changes only in the step that accepts a run (to the
\* requested value, before runBenchmark is called) and in the step in which
\* a benchmark body ends; no handler sets it back after a run. So help,
\* list, set and rejected runs leave it alone, and when a run of the line
\* protocol ends without failure and without leak warning GOMAXPROCS is the
\* value requested and stays so until a run is accepted again.
C20_NeverRestored ==
    [][/\ gomaxprocs' # gomaxprocs
            => \E c \in CallIds :
                 \/ /\ calls[c].pc \in {"idle", "done"}
                    /\ calls'[c].pc = "call"
                    /\ gomaxprocs' = calls'[c].Procs
                 \/ /\ calls[c].pc = "body"
                    /\ calls'[c].pc \in {"stop", "read"}
       /\ \A c \in CallIds :
            (calls[c].pc = "report" /\ calls'[c].pc = "done")
              => (/\ gomaxprocs' = gomaxprocs
                  /\ (frontend = "line" /\ ~calls[c].r.Failed
                      /\ ~HasItem(stderr', "leak"))
                       => gomaxprocs' = calls[c].Procs
                  /\ (frontend = "rpc" /\ calls'[c].err = "")
                       => gomaxprocs' = calls[c].Procs)
       /\ (LineStep /\ calls'[1] = Idle) => gomaxprocs' = gomaxprocs
       /\ (\A c \in CallIds : calls'[c].pc \in {"idle", "done"})
            => gomaxprocs' = gomaxprocs]_vars

\* C20, its case: a run of the line protocol with parallelism MaxProcs has
\* ended without failure and without leak, and GOMAXPROCS is still MaxProcs.
C20_Witness ==
    /\ AtScan
    /\ RunDone(1)
    /\ ~calls[1].r.Failed
    /\ calls[1].Procs = MaxProcs
    /\ stderr = <<>>
    /\ gomaxprocs = MaxProcs

\* ------------------------------------------- display names as run arguments
\* Largest absolute value of a parallelism that a display name is made of.
MaxDisplayProcs == 12

\* The line protocol's server at its first scanner.Scan().
RoundTripInit ==
    /\ frontend = "line"
    /\ phase = "serving"
    /\ exitCode = 0
    /\ host \in Hosts
    /\ benchmarks = Entries(host)
    /\ m = <<>>
    /\ benchmem = FALSE
    /\ opt = [Benchmem |-> FALSE]
    /\ gomaxprocs \in 1..MaxProcs
    /\ fields = <<>>
    /\ stdout = <<>>
    /\ stderr = <<>>
    /\ conn = "none"
    /\ calls = [c \in CallIds |-> Idle]

\* server.serve reads "run <display-name> <n>", the display name being what
\* benchmarkName makes of a name and a parallelism, and calls cmdRun.
cmdRun_displayName ==
    /\ AtScan
    /\ \E name \in BenchNames,
          p \in (0 - MaxDisplayProcs)..MaxDisplayProcs,
          n \in 1..MaxN :
         cmdRun(Fields(Join(<<W_run, benchmarkName(name, p), Itoa(n)>>)))

RoundTripNext == cmdRun_displayName

RoundTripSpec == RoundTripInit /\ [][RoundTripNext]_vars

\* C21: for every name without '-' and every parallelism p, the run argument
\* benchmarkName(name, p) is taken apart by cmdRun into that name and that
\* p (the display name of p = 1 being the name alone): a registered name is
\* run under that name with parallelism p and printed as the same display
\* name, and a name that is not registered is reported by that name.
C21_RoundTrip ==
    \A name \in BenchNames, p \in (0 - MaxDisplayProcs)..MaxDisplayProcs :
        (LineRun /\ fields[2] = benchmarkName(name, p))
          => (/\ p = 1 <=> fields[2] = name
              /\ LineCpuOk
              /\ LineName = name
              /\ LineProcs = p
              /\ name \in Registered
                   => (/\ calls[1].pc = "call"
                       /\ calls[1].Name = name
                       /\ calls[1].Procs = p
                       /\ stdout = <<Item("name", fields[2], 0)>>
                       /\ stderr = <<>>)
              /\ name \notin Registered
                   => (/\ calls[1] = Idle
                       /\ stderr = <<Item("notfound", name, 0)>>))

\* C21, its case: cmdRun has taken the display name of a registered
\* benchmark and of the parallelism -MaxDisplayProcs apart and is about to
\* run it.
C21_Witness ==
    /\ LineRun
    /\ fields[2] = benchmarkName(<<"A">>, 0 - MaxDisplayProcs)
    /\ calls[1].pc = "call"
    /\ calls[1].Name = <<"A">>
    /\ calls[1].Procs = 0 - MaxDisplayProcs

====
